---- MODULE Spec2Model ----
(***************************************************************************)
(* AsyncSingleJob (async_utils/src/lib.rs): a single-flight job scheduler. *)
(* One UI thread calls spawn / cancel / is_pending / take_last /           *)
(* check_for_job; every dispatched closure (rayon_core::spawn) is a worker *)
(* that executes run_job on its own clone of the scheduler.                *)
(* Every step below is one lock-protected statement of the source, so the  *)
(* interleavings of the model are the interleavings of the program.        *)
(***************************************************************************)
EXTENDS Integers, Sequences, FiniteSets, TLC

\* number of job instances the UI thread submits in one behaviour
MaxJobs == 3

\* number of background computations one AsyncStatus2 dispatches in one
\* behaviour
MaxFetches == 3

\* largest value of current_tick() in one behaviour
MaxTick == 1

\* number of calls of AsyncPush::request in one behaviour
MaxPushes == 2

\* number of progress events the push operations emit in one behaviour
MaxEvents == 2

\* number of notifications put on the git channel in one behaviour
MaxNotifications == 3

\* number of spawn calls on the scheduler whose mutexes are followed
MaxLockJobs == 2

\* number of fetches the user starts from the fetch popup
MaxUserFetches == 2

\* Option::None of the `next` and `last` slots; jobs are 1..MaxJobs in
\* submission order
None == 0

Jobs == 1..MaxJobs

\* the calls of AsyncPush::request, in call order
Requests == 1..MaxPushes

\* the closures fetch hands to rayon_core::spawn, in dispatch order; the
\* Status2 a closure computes is identified with the closure
Closures == 1..MaxFetches

VARIABLES
    next,           \* Arc<Mutex<Option<J>>>: the queued job or None
    last,           \* Arc<Mutex<Option<J>>>: the last completed job or None
    pending,        \* Arc<Mutex<()>>: who holds the lock, and for what
    receiverAlive,  \* the Receiver end of `sender` has not been dropped
    sent,           \* number of notification values put on the channel
    wpc,            \* per job: position of the worker closure that runs it
    wok,            \* per job: result of sender.send, while in run_job's scope
    ui,             \* the UI thread: position inside the current call
    nextId,         \* the next job instance the UI thread will submit
    poisoned,       \* the `pending` mutex is poisoned: a holder panicked
    aborted,        \* the pool's panic handler has aborted the process
    executed,       \* history: jobs in the order their run() started
    dropped,        \* history: jobs removed from `next` by cancel
    fresh,          \* history: `last` was written since the last take_last
    owed,           \* history: the job that was in `next` when a run finished
                    \* and has since been neither started, cancelled nor
                    \* overwritten
    onlySpawns,     \* history: all calls so far fit the coalescing scenario
    current,        \* AsyncStatus2.current: Request(hash, Option<Status2>)
    lastStatus,     \* AsyncStatus2.last: the Status2 written most recently
    pendingCount,   \* AsyncStatus2.pending: the AtomicUsize
    cpc,            \* per dispatched closure of fetch: its position
    hashRequest,    \* per dispatched closure of fetch: its captured hash
    lastWriter,     \* history: the closure that wrote `last` most recently
    tick,           \* the process-wide counter current_tick() reads
    pstate,         \* AsyncPush.state: the request being pushed or None
    lastResult,     \* AsyncPush.last_result: None or the error of a request
    progress,       \* AsyncPush.progress: None or a ProgressNotification
    ppc,            \* per request: position of the thread that pushes it
    outcome,        \* per request: what sync::push returned
    chan,           \* the progress channel of the running push thread
    rpc,            \* position of the relay thread of the running push
    nEmitted,       \* history: progress events emitted so far, all pushes
    lastEmitted,    \* history: the last event the running push emitted
    gitQ,           \* the notifications in the channel (tx_git, rx_git)
    putHist,        \* history: every notification sent on tx_git, in order
    handledGit,     \* history: the notifications passed to app.update_git
    lpc,            \* position of the main loop
    levents,        \* the Vec<QueueEvent> select_event returned
    quit,           \* what app.is_quit() returned last
    lkPending,      \* Mutex `pending`: the thread holding its guard or Free
    lkNext,         \* Mutex `next`: the thread holding its guard or Free
    lkLast,         \* Mutex `last`: the thread holding its guard or Free
    tpc,            \* per thread: its position in a method or in run_job
    nextFull,       \* whether `next` holds a job
    queuedCl,       \* closures handed to the pool and not started
    nSpawned,       \* history: calls of spawn
    fvisible,       \* FetchComponent.visible
    fpending,       \* FetchComponent.pending
    credVisible,    \* FetchComponent.input_cred is shown
    afState,        \* AsyncFetch: position of the fetch it runs
    afResult,       \* AsyncFetch: what last_result() returns
    fetchQ,         \* Fetch notifications in the git channel
    fHandled,       \* history: what the component did for each fetch
    nFetches        \* history: requests given to AsyncFetch

vars == <<next, last, pending, receiverAlive, sent, wpc, wok, ui, nextId,
          poisoned, aborted, executed, dropped, fresh, owed, onlySpawns,
          current, lastStatus, pendingCount, cpc, hashRequest, lastWriter,
          tick, pstate, lastResult, progress, ppc, outcome, chan, rpc,
          nEmitted, lastEmitted, gitQ, putHist, handledGit, lpc, levents,
          quit, lkPending, lkNext, lkLast, tpc, nextFull, queuedCl,
          nSpawned, fvisible, fpending, credVisible, afState, afResult,
          fetchQ, fHandled, nFetches>>

\* the state of one AsyncStatus2, and the tick its requests are built from
cacheVars == <<current, lastStatus, pendingCount, cpc, hashRequest,
               lastWriter, tick>>

\* the state of one AsyncPush and of the threads it spawned
pushVars == <<pstate, lastResult, progress, ppc, outcome, chan, rpc,
              nEmitted, lastEmitted>>

\* the state of the main loop and of the channel it receives from
loopVars == <<gitQ, putHist, handledGit, lpc, levents, quit>>

\* the mutexes of one AsyncSingleJob and the threads that use them
lockVars == <<lkPending, lkNext, lkLast, tpc, nextFull, queuedCl, nSpawned>>

\* the state of the FetchComponent and of the AsyncFetch it owns
fetchVars == <<fvisible, fpending, credVisible, afState, afResult, fetchQ,
               fHandled, nFetches>>

\* what the steps of a scheduler, a cache or a push leave alone
restVars == <<loopVars, lockVars, fetchVars>>

\* the state of one AsyncSingleJob
jobVars == <<next, last, pending, receiverAlive, wpc, wok, nextId, poisoned,
             executed, dropped, fresh, owed, onlySpawns>>

hist == <<poisoned, aborted, executed, dropped, fresh, owed, onlySpawns>>

----------------------------------------------------------------------------
\* the `pending` mutex

Unlocked == [by |-> "none", id |-> None, why |-> "none"]

HeldByWorker(j, why) == [by |-> "worker", id |-> j, why |-> why]

HeldByUi == [by |-> "ui", id |-> None, why |-> "probe"]

\* Mutex::try_lock is Ok iff nobody holds the lock and it is not poisoned
TryLockOk == pending = Unlocked /\ ~poisoned

\* a lock() that does not exclude other holders
CanLockNoExclusion == TRUE

\* Mutex::lock in run_job blocks until nobody holds the lock
CanLock == pending = Unlocked

\* run_job's critical section: from `self.pending.lock()?` to the end of the
\* inner scope
ExecPcs == {"running", "store", "send", "release"}

\* a dispatched closure that has not left run_job's critical section yet
UnfinishedPcs == {"queued"} \cup ExecPcs

\* run_job is past `self.sender.send(..)`
AfterSendPcs == {"release", "check", "probed", "take", "done"}

Executing == {j \in Jobs : wpc[j] \in ExecPcs}

Unfinished == {j \in Jobs : wpc[j] \in UnfinishedPcs}

AfterSend == {j \in Jobs : wpc[j] \in AfterSendPcs}

\* history: the job whose `*last = Some(task)` happened most recently
MostRecentStored ==
    LET S == {i \in 1..Len(executed) :
                 wpc[executed[i]] \notin {"running", "store"}}
    IN  IF S = {} THEN None
        ELSE executed[CHOOSE i \in S : \A k \in S : k <= i]

\* the UI thread between two calls
IdleUi == [pc |-> "idle", op |-> "none", job |-> None, ret |-> FALSE,
           val |-> None, busyAtCall |-> FALSE,
           execAtProbe |-> FALSE, heldAtProbe |-> FALSE, before |-> None,
           wasFresh |-> FALSE, hash |-> None]

\* AsyncStatus2::new, in a process whose tick counter is at its start
AsyncStatus2New ==
    /\ current = [hash |-> 0, value |-> None]
    /\ lastStatus = None
    /\ pendingCount = 0
    /\ cpc = [c \in Closures |-> "none"]
    /\ hashRequest = [c \in Closures |-> None]
    /\ lastWriter = None
    /\ tick = 0

\* Option::None of the `progress` slot
NoEvent == "None"

\* AsyncPush::new
AsyncPushNew ==
    /\ pstate = None
    /\ lastResult = None
    /\ progress = NoEvent
    /\ ppc = [r \in Requests |-> "none"]
    /\ outcome = [r \in Requests |-> "none"]
    /\ chan = <<>>
    /\ rpc = "none"
    /\ nEmitted = 0
    /\ lastEmitted = NoEvent

\* main before its loop: the git channel is empty, nothing is selected
MainNew ==
    /\ gitQ = <<>>
    /\ putHist = <<>>
    /\ handledGit = <<>>
    /\ lpc = "select"
    /\ levents = <<>>
    /\ quit = FALSE

\* the threads that use the mutexes of one AsyncSingleJob: callers of its
\* public methods and threads of the rayon pool
Callers == {"c1", "c2"}

PoolThreads == {"p1", "p2"}

Threads == Callers \cup PoolThreads

\* a mutex nobody holds
Free == "free"

\* AsyncSingleJob::new: no guard exists, nothing is queued
LocksNew ==
    /\ lkPending = Free
    /\ lkNext = Free
    /\ lkLast = Free
    /\ tpc = [t \in Threads |-> "idle"]
    /\ nextFull = FALSE
    /\ queuedCl = 0
    /\ nSpawned = 0

\* FetchComponent::new, with the AsyncFetch it creates
FetchNew ==
    /\ fvisible = FALSE
    /\ fpending = FALSE
    /\ credVisible = FALSE
    /\ afState = "idle"
    /\ afResult = "none"
    /\ fetchQ = 0
    /\ fHandled = <<>>
    /\ nFetches = 0

Init ==
    /\ next = None
    /\ last = None
    /\ pending = Unlocked
    /\ receiverAlive = TRUE
    /\ sent = 0
    /\ wpc = [j \in Jobs |-> "none"]
    /\ wok = [j \in Jobs |-> TRUE]
    /\ ui = IdleUi
    /\ nextId = 1
    /\ poisoned = FALSE
    /\ aborted = FALSE
    /\ executed = <<>>
    /\ dropped = {}
    /\ fresh = FALSE
    /\ owed = None
    /\ onlySpawns = TRUE
    /\ AsyncStatus2New
    /\ AsyncPushNew
    /\ MainNew
    /\ LocksNew
    /\ FetchNew

----------------------------------------------------------------------------
\* helpers shared by the UI thread and the workers

\* a schedule_next that keeps the job already queued
ScheduleNextKeepFirst(task) == next' = IF next = None THEN task ELSE next

\* schedule_next: `*next = Some(task)`, overwriting what was queued
ScheduleNext(task) == next' = task

\* take_next followed by rayon_core::spawn: the taken job becomes a queued
\* closure of the worker pool
Dispatch ==
    /\ wpc' = [wpc EXCEPT ![next] = "queued"]
    /\ next' = None

\* a cancel() that reports success whatever `next` held
CancelRetAlways(n) == TRUE

\* the value cancel() returns for a `next` slot holding n
CancelRet(n) == n # None

\* a take_last that clones the slot instead of taking it
TakeSlotKeeps == last' = last

\* Option::take on the `last` slot
TakeSlot == last' = None

\* a call of the UI thread computed its result: the thread is at the return
\* statement, `ret` (a bool) or `val` (an Option<J>) is the value returned
Return(r) == ui' = [r EXCEPT !.pc = "ret"]

----------------------------------------------------------------------------
\* the UI thread

\* spawn, first statement: self.schedule_next(task)
Spawn ==
    /\ ui.pc = "idle"
    /\ nextId <= MaxJobs
    /\ ScheduleNext(nextId)
    /\ nextId' = nextId + 1
    /\ ui' = [IdleUi EXCEPT !.pc = "check", !.op = "spawn", !.job = nextId,
                            !.busyAtCall = (Unfinished # {})]
    /\ onlySpawns' = (onlySpawns /\ (nextId = 1 \/ wpc[1] = "running"))
    /\ owed' = None
    /\ UNCHANGED <<cacheVars, pushVars, restVars>>
    /\ UNCHANGED <<last, pending, receiverAlive, sent, wpc, wok, poisoned,
                   aborted, executed, dropped, fresh>>

\* check_for_job called directly (it is pub): positions the thread at the
\* is_pending probe
CheckForJob ==
    /\ ui.pc = "idle"
    /\ ui' = [IdleUi EXCEPT !.pc = "check", !.op = "check_for_job",
                            !.busyAtCall = (Unfinished # {})]
    /\ onlySpawns' = FALSE
    /\ UNCHANGED <<cacheVars, pushVars, restVars>>
    /\ UNCHANGED <<next, last, pending, receiverAlive, sent, wpc, wok, nextId,
                   poisoned, aborted, executed, dropped, fresh, owed>>

\* a check_for_job that waits for the `pending` lock instead of probing it
UiProbeBlocking ==
    /\ ui.pc = "check"
    /\ CanLock
    /\ pending' = HeldByUi
    /\ ui' = [ui EXCEPT !.pc = "probed"]
    /\ UNCHANGED <<cacheVars, pushVars, restVars>>
    /\ UNCHANGED <<next, last, receiverAlive, sent, wpc, wok, nextId, hist>>

\* check_for_job: `if self.is_pending() { return false; }`; the try_lock
\* guard lives until is_pending returns
UiProbe ==
    /\ ui.pc = "check"
    /\ IF TryLockOk
         THEN /\ pending' = HeldByUi
              /\ ui' = [ui EXCEPT !.pc = "probed"]
         ELSE /\ Return([ui EXCEPT !.ret = FALSE,
                                   !.execAtProbe = (Executing # {})])
              /\ UNCHANGED pending
    /\ UNCHANGED <<cacheVars, pushVars, restVars>>
    /\ UNCHANGED <<next, last, receiverAlive, sent, wpc, wok, nextId, hist>>

\* is_pending called by the UI: self.pending.try_lock().is_err()
IsPending ==
    /\ ui.pc = "idle"
    /\ IF TryLockOk
         THEN /\ pending' = HeldByUi
              /\ ui' = [IdleUi EXCEPT !.pc = "probed", !.op = "is_pending",
                                      !.execAtProbe = (Executing # {}),
                                      !.heldAtProbe = (pending # Unlocked)]
         ELSE /\ Return([IdleUi EXCEPT !.op = "is_pending", !.ret = TRUE,
                                       !.execAtProbe = (Executing # {}),
                                       !.heldAtProbe = (pending # Unlocked)])
              /\ UNCHANGED pending
    /\ onlySpawns' = FALSE
    /\ UNCHANGED <<cacheVars, pushVars, restVars>>
    /\ UNCHANGED <<next, last, receiverAlive, sent, wpc, wok, nextId,
                   poisoned, aborted, executed, dropped, fresh, owed>>

\* the temporary guard of a successful try_lock is dropped
UiProbeRelease ==
    /\ ui.pc = "probed"
    /\ pending' = Unlocked
    /\ IF ui.op = "is_pending"
         THEN Return([ui EXCEPT !.ret = FALSE])
         ELSE ui' = [ui EXCEPT !.pc = "take"]
    /\ UNCHANGED <<cacheVars, pushVars, restVars>>
    /\ UNCHANGED <<next, last, receiverAlive, sent, wpc, wok, nextId, hist>>

\* check_for_job: `if let Some(task) = self.take_next() { spawn; true }`
UiTakeNext ==
    /\ ui.pc = "take"
    /\ IF next # None
         THEN /\ Dispatch
              /\ Return([ui EXCEPT !.ret = TRUE, !.val = next])
         ELSE /\ Return([ui EXCEPT !.ret = FALSE])
              /\ UNCHANGED <<next, wpc>>
    /\ owed' = None
    /\ UNCHANGED <<cacheVars, pushVars, restVars>>
    /\ UNCHANGED <<last, pending, receiverAlive, sent, wok, nextId, poisoned,
                   aborted, executed, dropped, fresh, onlySpawns>>

\* a cancel that resets the `last` slot as well
CancelClearsLast ==
    /\ ui.pc = "idle"
    /\ next' = None
    /\ last' = None
    /\ Return([IdleUi EXCEPT !.op = "cancel", !.ret = CancelRet(next),
                             !.before = next])
    /\ dropped' = IF next # None THEN dropped \cup {next} ELSE dropped
    /\ onlySpawns' = FALSE
    /\ owed' = None
    /\ UNCHANGED <<cacheVars, pushVars, restVars>>
    /\ UNCHANGED <<pending, receiverAlive, sent, wpc, wok, nextId, poisoned,
                   aborted, executed, fresh>>

\* cancel: one critical section on `next`
Cancel ==
    /\ ui.pc = "idle"
    /\ next' = None
    /\ Return([IdleUi EXCEPT !.op = "cancel", !.ret = CancelRet(next),
                             !.before = next])
    /\ dropped' = IF next # None THEN dropped \cup {next} ELSE dropped
    /\ onlySpawns' = FALSE
    /\ owed' = None
    /\ UNCHANGED <<cacheVars, pushVars, restVars>>
    /\ UNCHANGED <<last, pending, receiverAlive, sent, wpc, wok, nextId,
                   poisoned, aborted, executed, fresh>>

\* take_last: one critical section on `last`
TakeLast ==
    /\ ui.pc = "idle"
    /\ TakeSlot
    /\ Return([IdleUi EXCEPT !.op = "take_last", !.val = last,
                             !.before = MostRecentStored,
                             !.wasFresh = fresh])
    /\ fresh' = FALSE
    /\ UNCHANGED <<cacheVars, pushVars, restVars>>
    /\ UNCHANGED <<next, pending, receiverAlive, sent, wpc, wok, nextId,
                   poisoned, aborted, executed, dropped, owed, onlySpawns>>

\* the call returns to the UI loop
UiReturn ==
    /\ ui.pc = "ret"
    /\ ui' = IdleUi
    /\ UNCHANGED <<cacheVars, pushVars, restVars>>
    /\ UNCHANGED <<next, last, pending, receiverAlive, sent, wpc, wok,
                   nextId, hist>>

\* the owner of the channel drops the Receiver
DropReceiver ==
    /\ receiverAlive
    /\ receiverAlive' = FALSE
    /\ UNCHANGED <<cacheVars, pushVars, restVars>>
    /\ UNCHANGED <<next, last, pending, sent, wpc, wok, ui, nextId,
                   hist>>

----------------------------------------------------------------------------
\* a worker closure: self_arc.run_job(task)

\* `let _pending = self.pending.lock()?;` then task.run() begins; on a
\* poisoned mutex lock() is Err and run_job returns it without running
WLock(j) ==
    /\ wpc[j] = "queued"
    /\ CanLock
    /\ IF poisoned
         THEN /\ wpc' = [wpc EXCEPT ![j] = "done"]
              /\ UNCHANGED <<pending, executed>>
         ELSE /\ pending' = HeldByWorker(j, "exec")
              /\ wpc' = [wpc EXCEPT ![j] = "running"]
              /\ executed' = Append(executed, j)
    /\ UNCHANGED <<cacheVars, pushVars, restVars>>
    /\ UNCHANGED <<next, last, receiverAlive, sent, wok, ui, nextId, poisoned,
                   aborted, dropped, fresh, owed, onlySpawns>>

\* task.run() panics: unwinding drops the _pending guard, which poisons the
\* mutex; the closure of rayon_core::spawn ends in the pool's panic handler
WPanic(j) ==
    /\ wpc[j] = "running"
    /\ wpc' = [wpc EXCEPT ![j] = "panicked"]
    /\ pending' = Unlocked
    /\ poisoned' = TRUE
    /\ UNCHANGED <<cacheVars, pushVars, restVars>>
    /\ UNCHANGED <<next, last, receiverAlive, sent, wok, ui, nextId, aborted,
                   executed, dropped, fresh, owed, onlySpawns>>

\* the panic handler of the global pool: process::abort()
WAbort(j) ==
    /\ wpc[j] = "panicked"
    /\ aborted' = TRUE
    /\ UNCHANGED <<cacheVars, pushVars, restVars>>
    /\ UNCHANGED <<next, last, pending, receiverAlive, sent, wpc, wok, ui,
                   nextId, poisoned, executed, dropped, fresh, owed,
                   onlySpawns>>

\* task.run() returns
WRun(j) ==
    /\ wpc[j] = "running"
    /\ wpc' = [wpc EXCEPT ![j] = "store"]
    /\ UNCHANGED <<cacheVars, pushVars, restVars>>
    /\ UNCHANGED <<next, last, pending, receiverAlive, sent, wok, ui, nextId,
                   hist>>

\* a run_job that sends the notification without storing the job
WStoreLastSkipped(j) ==
    /\ wpc[j] = "store"
    /\ wpc' = [wpc EXCEPT ![j] = "send"]
    /\ UNCHANGED <<cacheVars, pushVars, restVars>>
    /\ UNCHANGED <<next, last, pending, receiverAlive, sent, wok, ui, nextId,
                   hist>>

\* `*last = Some(task)`
WStoreLast(j) ==
    /\ wpc[j] = "store"
    /\ last' = j
    /\ fresh' = TRUE
    /\ wpc' = [wpc EXCEPT ![j] = "send"]
    /\ UNCHANGED <<cacheVars, pushVars, restVars>>
    /\ UNCHANGED <<next, pending, receiverAlive, sent, wok, ui, nextId,
                   poisoned, aborted, executed, dropped, owed, onlySpawns>>

\* a run_job that notifies only when no follow-up job is queued
WSendUnlessQueued(j) ==
    /\ wpc[j] = "send"
    /\ sent' = IF receiverAlive /\ next = None THEN sent + 1 ELSE sent
    /\ wok' = [wok EXCEPT ![j] = receiverAlive]
    /\ wpc' = [wpc EXCEPT ![j] = "release"]
    /\ UNCHANGED <<cacheVars, pushVars, restVars>>
    /\ UNCHANGED <<next, last, pending, receiverAlive, ui, nextId,
                   hist>>

\* `self.sender.send(self.notification)?`: Err when the receiver is gone
WSend(j) ==
    /\ wpc[j] = "send"
    /\ sent' = IF receiverAlive THEN sent + 1 ELSE sent
    /\ wok' = [wok EXCEPT ![j] = receiverAlive]
    /\ wpc' = [wpc EXCEPT ![j] = "release"]
    /\ UNCHANGED <<cacheVars, pushVars, restVars>>
    /\ UNCHANGED <<next, last, pending, receiverAlive, ui, nextId,
                   hist>>

\* end of the inner scope (or the early return of `?`): _pending is dropped;
\* after a failed send run_job returns Err without calling check_for_job
WRelease(j) ==
    /\ wpc[j] = "release"
    /\ pending' = Unlocked
    /\ wpc' = [wpc EXCEPT ![j] = IF wok[j] THEN "check" ELSE "done"]
    /\ wok' = [wok EXCEPT ![j] = TRUE]
    /\ owed' = next
    /\ UNCHANGED <<cacheVars, pushVars, restVars>>
    /\ UNCHANGED <<next, last, receiverAlive, sent, ui, nextId, poisoned,
                   aborted, executed, dropped, fresh, onlySpawns>>

\* self.check_for_job(): the is_pending probe
WProbe(j) ==
    /\ wpc[j] = "check"
    /\ IF TryLockOk
         THEN /\ pending' = HeldByWorker(j, "probe")
              /\ wpc' = [wpc EXCEPT ![j] = "probed"]
         ELSE /\ wpc' = [wpc EXCEPT ![j] = "done"]
              /\ UNCHANGED pending
    /\ UNCHANGED <<cacheVars, pushVars, restVars>>
    /\ UNCHANGED <<next, last, receiverAlive, sent, wok, ui, nextId,
                   hist>>

\* the probe's guard is dropped
WProbeRelease(j) ==
    /\ wpc[j] = "probed"
    /\ pending' = Unlocked
    /\ wpc' = [wpc EXCEPT ![j] = "take"]
    /\ UNCHANGED <<cacheVars, pushVars, restVars>>
    /\ UNCHANGED <<next, last, receiverAlive, sent, wok, ui, nextId,
                   hist>>

\* take_next and, if a job was queued, dispatch of its closure
WTakeNext(j) ==
    /\ wpc[j] = "take"
    /\ IF next # None
         THEN /\ wpc' = [wpc EXCEPT ![j] = "done", ![next] = "queued"]
              /\ next' = None
         ELSE /\ wpc' = [wpc EXCEPT ![j] = "done"]
              /\ UNCHANGED next
    /\ owed' = None
    /\ UNCHANGED <<cacheVars, pushVars, restVars>>
    /\ UNCHANGED <<last, pending, receiverAlive, sent, wok, ui, nextId,
                   poisoned, aborted, executed, dropped, fresh, onlySpawns>>

UiStep ==
    \/ UiProbe
    \/ UiProbeRelease
    \/ UiTakeNext
    \/ UiReturn

Next ==
    \/ Spawn
    \/ CheckForJob
    \/ IsPending
    \/ UiProbe
    \/ UiProbeRelease
    \/ UiTakeNext
    \/ UiReturn
    \/ Cancel
    \/ TakeLast
    \/ DropReceiver
    \/ \E j \in Jobs : WLock(j)
    \/ \E j \in Jobs : WRun(j)
    \/ \E j \in Jobs : WStoreLast(j)
    \/ \E j \in Jobs : WSend(j)
    \/ \E j \in Jobs : WRelease(j)
    \/ \E j \in Jobs : WProbe(j)
    \/ \E j \in Jobs : WProbeRelease(j)
    \/ \E j \in Jobs : WTakeNext(j)

Spec == Init /\ [][Next]_vars

\* the scheduler with jobs whose run() may panic; nothing runs once the
\* process was aborted
Live == ~aborted

PanicNext ==
    \/ Live /\ Spawn
    \/ Live /\ CheckForJob
    \/ Live /\ IsPending
    \/ Live /\ UiProbe
    \/ Live /\ UiProbeRelease
    \/ Live /\ UiTakeNext
    \/ Live /\ UiReturn
    \/ Live /\ Cancel
    \/ Live /\ TakeLast
    \/ Live /\ DropReceiver
    \/ Live /\ \E j \in Jobs : WLock(j)
    \/ Live /\ \E j \in Jobs : WPanic(j)
    \/ Live /\ \E j \in Jobs : WAbort(j)
    \/ Live /\ \E j \in Jobs : WRun(j)
    \/ Live /\ \E j \in Jobs : WStoreLast(j)
    \/ Live /\ \E j \in Jobs : WSend(j)
    \/ Live /\ \E j \in Jobs : WRelease(j)
    \/ Live /\ \E j \in Jobs : WProbe(j)
    \/ Live /\ \E j \in Jobs : WProbeRelease(j)
    \/ Live /\ \E j \in Jobs : WTakeNext(j)

PanicSpec == Init /\ [][PanicNext]_vars

\* the steps of run_job inside its critical section
WorkerExec(j) ==
    \/ WRun(j)
    \/ WStoreLast(j)
    \/ WSend(j)
    \/ WRelease(j)

\* no call in progress and no closure in flight
Quiescent ==
    /\ ui.pc = "idle"
    /\ \A j \in Jobs : wpc[j] \in {"none", "done"}

----------------------------------------------------------------------------
(***************************************************************************)
(* AsyncStatus2 (asyncgit/src/status2.rs): the keyed result cache of the   *)
(* status tab. The UI thread calls fetch / is_pending / last; every        *)
(* closure fetch hands to rayon_core::spawn is a worker. Each step below   *)
(* is one access to `pending`, `current`, `last` or the channel.           *)
(***************************************************************************)

\* the cache of the working-directory list is always asked for this type
StatusTypes == {"WorkingDir"}

\* StatusParams::new, the only way to build a request for given arguments:
\* the private field tick is current_tick() at that time
StatusParamsNew(t, u) ==
    [tick |-> tick, status_type |-> t, include_untracked |-> u]

TypeCode(t) == IF t = "WorkingDir" THEN 1 ELSE 0

\* hash(&params): a deterministic u64 that differs for different parameters
Hash(p) ==
    4 * p.tick + 2 * TypeCode(p.status_type)
               + (IF p.include_untracked THEN 1 ELSE 0)

\* positions of a closure before fetch_helper has written its result to `last`
ComputingPcs == {"spawned", "helper", "store"}

\* positions of a closure that was dispatched and has not returned
InFlightPcs == ComputingPcs \cup {"sub", "send"}

Computing == {c \in Closures : cpc[c] \in ComputingPcs}

InFlight == {c \in Closures : cpc[c] \in InFlightPcs}

Dispatched == {c \in Closures : cpc[c] # "none"}

\* closures past the `current` critical section of fetch_helper
PastCurrent == {c \in Closures : cpc[c] \in {"store", "sub", "send", "done"}}

\* a fetch that never takes the dedup path
SameRequestNever(h) == FALSE

\* fetch: `if current.0 == hash_request`
SameRequest(h) == current.hash = h

\* a fetch that keeps the value of the request it replaces
NewRequestKeepsValue(h) == [hash |-> h, value |-> current.value]

\* fetch: `current.0 = hash_request; current.1 = None;`
NewRequest(h) == [hash |-> h, value |-> None]

\* a fetch_helper that writes `current` whatever request is current
StillCurrentAlways(c) == TRUE

\* fetch_helper: `if current.0 == hash_request`
StillCurrent(c) == current.hash = hashRequest[c]

\* a fetch_helper that writes `last` only for the current request
StoreLastIfCurrent(c) ==
    lastStatus' = IF current.hash = hashRequest[c] THEN c ELSE lastStatus

\* fetch_helper: `*last = res;`
StoreLast(c) == lastStatus' = c

\* is_pending: `self.pending.load(Ordering::Relaxed) > 0`
LoadPending == pendingCount > 0

\* fetch, dedup path: `return Ok(current.1.clone())`
CurrentValue == current.value

\* fetch: one critical section on `current`, then rayon_core::spawn of the
\* closure and `Ok(None)`; in the returned record `ret` tells whether a
\* closure was dispatched and `job` which one
Fetch(p) ==
    /\ ui.pc = "idle"
    /\ IF SameRequest(Hash(p))
         THEN /\ Return([IdleUi EXCEPT !.op = "fetch", !.hash = Hash(p),
                                       !.val = CurrentValue])
              /\ UNCHANGED <<current, cpc, hashRequest>>
         ELSE /\ Cardinality(Dispatched) < MaxFetches
              /\ current' = NewRequest(Hash(p))
              /\ cpc' = [cpc EXCEPT ![Cardinality(Dispatched) + 1] = "spawned"]
              /\ hashRequest' = [hashRequest EXCEPT
                                    ![Cardinality(Dispatched) + 1] = Hash(p)]
              /\ Return([IdleUi EXCEPT !.op = "fetch", !.hash = Hash(p),
                                       !.ret = TRUE,
                                       !.job = Cardinality(Dispatched) + 1])
    /\ UNCHANGED <<lastStatus, pendingCount, lastWriter>>
    /\ UNCHANGED <<jobVars, pushVars, restVars, sent, aborted, tick>>

\* AsyncStatus2::is_pending
StatusIsPending ==
    /\ ui.pc = "idle"
    /\ Return([IdleUi EXCEPT !.op = "status_is_pending", !.ret = LoadPending])
    /\ UNCHANGED cacheVars
    /\ UNCHANGED <<jobVars, pushVars, restVars, sent, aborted>>

\* AsyncStatus2::last
StatusLast ==
    /\ ui.pc = "idle"
    /\ Return([IdleUi EXCEPT !.op = "last", !.val = lastStatus,
                             !.before = lastWriter])
    /\ UNCHANGED cacheVars
    /\ UNCHANGED <<jobVars, pushVars, restVars, sent, aborted>>

\* Status::update_status: the tab sets its list from last(). update_git
\* calls it on every AsyncGitNotification::Status, a tag the two caches of
\* the tab share, so for one cache it can run at any time; `val` is what
\* the tab shows from then on
UpdateStatus ==
    /\ ui.pc = "idle"
    /\ Return([IdleUi EXCEPT !.op = "update_status", !.val = lastStatus])
    /\ UNCHANGED cacheVars
    /\ UNCHANGED <<jobVars, pushVars, restVars, sent, aborted>>

\* the closure starts on a pool thread: arc_pending.fetch_add(1)
FetchAdd(c) ==
    /\ cpc[c] = "spawned"
    /\ pendingCount' = pendingCount + 1
    /\ cpc' = [cpc EXCEPT ![c] = "helper"]
    /\ UNCHANGED <<current, lastStatus, hashRequest, lastWriter>>
    /\ UNCHANGED <<jobVars, pushVars, restVars, sent, aborted, ui, tick>>

\* a fetch_helper that empties `current` when its request is not current
HelperCurrentClearsStale(c) ==
    /\ cpc[c] = "helper"
    /\ current' = IF StillCurrent(c) THEN [current EXCEPT !.value = c]
                                     ELSE [current EXCEPT !.value = None]
    /\ cpc' = [cpc EXCEPT ![c] = "store"]
    /\ UNCHANGED <<lastStatus, pendingCount, hashRequest, lastWriter>>
    /\ UNCHANGED <<jobVars, pushVars, restVars, sent, aborted, ui, tick>>

\* fetch_helper: get_status returned Ok(res); the critical section on
\* `current` stores res if the request is still the current one
HelperCurrent(c) ==
    /\ cpc[c] = "helper"
    /\ current' = IF StillCurrent(c) THEN [current EXCEPT !.value = c]
                                     ELSE current
    /\ cpc' = [cpc EXCEPT ![c] = "store"]
    /\ UNCHANGED <<lastStatus, pendingCount, hashRequest, lastWriter>>
    /\ UNCHANGED <<jobVars, pushVars, restVars, sent, aborted, ui, tick>>

\* fetch_helper: the critical section on `last`
HelperLast(c) ==
    /\ cpc[c] = "store"
    /\ StoreLast(c)
    /\ lastWriter' = c
    /\ cpc' = [cpc EXCEPT ![c] = "sub"]
    /\ UNCHANGED <<current, pendingCount, hashRequest>>
    /\ UNCHANGED <<jobVars, pushVars, restVars, sent, aborted, ui, tick>>

\* arc_pending.fetch_sub(1)
FetchSub(c) ==
    /\ cpc[c] = "sub"
    /\ pendingCount' = pendingCount - 1
    /\ cpc' = [cpc EXCEPT ![c] = "send"]
    /\ UNCHANGED <<current, lastStatus, hashRequest, lastWriter>>
    /\ UNCHANGED <<jobVars, pushVars, restVars, sent, aborted, ui, tick>>

\* a closure that notifies only when its request is still the current one
SendStatusIfCurrent(c) ==
    /\ cpc[c] = "send"
    /\ sent' = IF StillCurrent(c) THEN sent + 1 ELSE sent
    /\ cpc' = [cpc EXCEPT ![c] = "done"]
    /\ UNCHANGED <<current, lastStatus, pendingCount, hashRequest, lastWriter>>
    /\ UNCHANGED <<jobVars, pushVars, restVars, aborted, ui, tick>>

\* sender.send(AsyncNotification::Status).expect(..): with the Receiver
\* dropped the closure panics
SendStatus(c) ==
    /\ cpc[c] = "send"
    /\ IF receiverAlive
         THEN /\ sent' = sent + 1
              /\ cpc' = [cpc EXCEPT ![c] = "done"]
         ELSE /\ cpc' = [cpc EXCEPT ![c] = "panicked"]
              /\ UNCHANGED sent
    /\ UNCHANGED <<current, lastStatus, pendingCount, hashRequest, lastWriter>>
    /\ UNCHANGED <<jobVars, pushVars, restVars, aborted, ui, tick>>

\* the application advances the tick (a change of the repository was seen)
Tick ==
    /\ tick < MaxTick
    /\ tick' = tick + 1
    /\ UNCHANGED <<current, lastStatus, pendingCount, cpc, hashRequest,
                   lastWriter>>
    /\ UNCHANGED <<jobVars, pushVars, restVars, sent, aborted, ui>>

StatusNext ==
    \/ \E t \in StatusTypes, u \in BOOLEAN : Fetch(StatusParamsNew(t, u))
    \/ Tick
    \/ StatusIsPending
    \/ StatusLast
    \/ UpdateStatus
    \/ UiReturn
    \/ \E c \in Closures : FetchAdd(c)
    \/ \E c \in Closures : HelperCurrent(c)
    \/ \E c \in Closures : HelperLast(c)
    \/ \E c \in Closures : FetchSub(c)
    \/ \E c \in Closures : SendStatus(c)

StatusSpec == Init /\ [][StatusNext]_vars

\* the status types a request can be built for; with AllStatusTypes the
\* request for the staged list at the initial tick has the fingerprint 0
AllStatusTypes == {"WorkingDir", "Stage"}

\* AsyncStatus2 asked for requests of every status type
StatusAnyNext ==
    \/ \E t \in AllStatusTypes, u \in BOOLEAN : Fetch(StatusParamsNew(t, u))
    \/ Tick
    \/ StatusIsPending
    \/ StatusLast
    \/ UpdateStatus
    \/ UiReturn
    \/ \E c \in Closures : FetchAdd(c)
    \/ \E c \in Closures : HelperCurrent(c)
    \/ \E c \in Closures : HelperLast(c)
    \/ \E c \in Closures : FetchSub(c)
    \/ \E c \in Closures : SendStatus(c)

StatusAnySpec == Init /\ [][StatusAnyNext]_vars

\* the steps of the closure c on its pool thread
ClosureStep(c) ==
    \/ FetchAdd(c)
    \/ HelperCurrent(c)
    \/ HelperLast(c)
    \/ FetchSub(c)
    \/ SendStatus(c)

\* a fetch of the request that is the current one: the dedup path
FetchHit ==
    \E t \in StatusTypes, u \in BOOLEAN :
       /\ SameRequest(Hash(StatusParamsNew(t, u)))
       /\ Fetch(StatusParamsNew(t, u))

\* the pool runs every closure it was given and get_status returns; the
\* tab goes on asking for the current request for as long as it can
StatusFairness ==
    /\ \A c \in Closures : WF_vars(ClosureStep(c))
    /\ SF_vars(FetchHit)
    /\ WF_vars(UiReturn)

StatusFairSpec == StatusSpec /\ StatusFairness

\* fetch_helper: get_status returned Err, `?` returns it and the closure's
\* .expect("failed to fetch status") panics before fetch_sub
HelperFails(c) ==
    /\ cpc[c] = "helper"
    /\ cpc' = [cpc EXCEPT ![c] = "panicked"]
    /\ UNCHANGED <<current, lastStatus, pendingCount, hashRequest, lastWriter>>
    /\ UNCHANGED <<jobVars, pushVars, restVars, sent, aborted, ui, tick>>

\* the panic_handler of the global pool: process::abort()
StatusAbort(c) ==
    /\ cpc[c] = "panicked"
    /\ aborted' = TRUE
    /\ UNCHANGED cacheVars
    /\ UNCHANGED <<jobVars, pushVars, restVars, sent, ui>>

\* AsyncStatus2 with a repository call that can fail and a Receiver that
\* can be dropped
StatusFailNext ==
    \/ Live /\ \E t \in StatusTypes, u \in BOOLEAN : Fetch(StatusParamsNew(t, u))
    \/ Live /\ Tick
    \/ Live /\ StatusIsPending
    \/ Live /\ StatusLast
    \/ Live /\ UpdateStatus
    \/ Live /\ UiReturn
    \/ Live /\ DropReceiver
    \/ Live /\ \E c \in Closures : FetchAdd(c)
    \/ Live /\ \E c \in Closures : HelperCurrent(c)
    \/ Live /\ \E c \in Closures : HelperFails(c)
    \/ Live /\ \E c \in Closures : HelperLast(c)
    \/ Live /\ \E c \in Closures : FetchSub(c)
    \/ Live /\ \E c \in Closures : SendStatus(c)
    \/ Live /\ \E c \in Closures : StatusAbort(c)

StatusFailSpec == Init /\ [][StatusFailNext]_vars

\* closures between fetch_add and fetch_sub
Counted == {c \in Closures : cpc[c] \in {"helper", "store", "sub"}}

\* closures that have returned
Completed == {c \in Closures : cpc[c] = "done"}

\* the closure the most recent request that changed current.0 dispatched
LatestDispatched == Cardinality(Dispatched)

\* closures whose result has been written to `last`
WroteBack == {c \in Closures : cpc[c] \in {"sub", "send", "done"}}

\* the UI thread executes the named call of AsyncStatus2 or of the tab
StatusCallStep(op) == ui.pc = "idle" /\ ui'.pc = "ret" /\ ui'.op = op

StatusCallReturned(op) == ui.pc = "ret" /\ ui.op = op

----------------------------------------------------------------------------
(***************************************************************************)
(* AsyncPush (asyncgit/src/push.rs): one push at a time. request() spawns  *)
(* a push thread; the push thread creates the progress channel, spawns a   *)
(* relay thread that copies progress events into `progress`, runs          *)
(* sync::push, sends Done, joins the relay, stores the result, clears the  *)
(* request and sends the final notification.                               *)
(***************************************************************************)

\* the ProgressNotification values a push converts (From, push.rs:40-67)
EventKinds == {"PackingAddingObjects", "PackingDeltafication", "PushTransfer"}

\* ProgressNotification::Done, the terminal event
Done == "Done"

\* Option::None of the value progress() returns
NoProgress == [some |-> FALSE, state |-> "", progress |-> 0]

\* impl From<ProgressNotification> for PushProgress
ToPushProgress(e) ==
    IF e = "PackingAddingObjects"
      THEN [some |-> TRUE, state |-> "PackingAddingObject", progress |-> 10]
    ELSE IF e = "PackingDeltafication"
      THEN [some |-> TRUE, state |-> "PackingDeltafiction", progress |-> 40]
    ELSE IF e = "PushTransfer"
      THEN [some |-> TRUE, state |-> "Pushing", progress |-> 60]
    ELSE [some |-> TRUE, state |-> "Pushing", progress |-> 100]

\* the calls of request made so far
Requested == {r \in Requests : ppc[r] # "none"}

\* positions of a push thread from thread::spawn to clear_request
RunningPcs == {"spawned", "pushing", "done", "join", "result", "clear"}

\* positions of a push thread before handle.join() has returned
BeforeJoinedPcs == {"spawned", "pushing", "done", "join"}

\* positions of a push thread after clear_request
ClearedPcs == {"notify", "finished"}

Running == {r \in Requests : ppc[r] \in RunningPcs}

Cleared == {r \in Requests : ppc[r] \in ClearedPcs}

\* the request accepted most recently
LatestAccepted ==
    LET A == {r \in Requests : ppc[r] \notin {"none", "rejected"}}
    IN  IF A = {} THEN None ELSE CHOOSE r \in A : \A q \in A : q <= r

\* a request that is accepted whatever is running
AcceptsAlways == TRUE

\* request: `if self.is_pending()? { return Ok(()); }`, and set_request's
\* `if state.is_some() { return Err(..) }`
Accepts == pstate = None

\* a request that starts from the last event of the push before it
ResetProgressToLast == lastEmitted

\* a request that leaves the progress of the previous push in place
KeepProgress == progress

\* request: Self::set_progress(self.progress.clone(), None)
ResetProgress == NoEvent

\* a set_result that writes only errors
ResultValueErrorsOnly(r) == IF outcome[r] = "err" THEN r ELSE lastResult

\* set_result: None for Ok(_), Some(e.to_string()) for Err(e); the error
\* text of a request is identified with the request
ResultValue(r) == IF outcome[r] = "err" THEN r ELSE None

\* a join that does not wait for the relay thread
RelayJoinableAlways == TRUE

\* handle.join() returns once the relay thread has ended
RelayJoinable == rpc \in {"exited", "panicked"}

\* a relay that takes no event for the terminal one
IsTerminalNever(e) == FALSE

\* the relay's `ProgressNotification::Done => break`
IsTerminal(e) == e = Done

\* a request that forgets the result of the push before it
ResultOnRequestCleared == None

\* request writes `state` and `progress` only: last_result is left as it is
ResultOnRequest == lastResult

\* request: is_pending, set_request, set_progress(None), thread::spawn. The
\* UI thread is the only caller and no other thread writes `state` or
\* `progress` while `state` is None, so the four statements are one step.
\* In the returned record `ret` tells whether the request was accepted
PushRequestCall ==
    /\ ui.pc = "idle"
    /\ Cardinality(Requested) < MaxPushes
    /\ LET r == Cardinality(Requested) + 1 IN
         IF Accepts
           THEN /\ pstate' = r
                /\ progress' = ResetProgress
                /\ ppc' = [ppc EXCEPT ![r] = "spawned"]
                /\ Return([IdleUi EXCEPT !.op = "request", !.ret = TRUE,
                                         !.job = r])
           ELSE /\ ppc' = [ppc EXCEPT ![r] = "rejected"]
                /\ Return([IdleUi EXCEPT !.op = "request", !.job = r])
                /\ UNCHANGED <<pstate, progress>>
    /\ lastResult' = IF Accepts THEN ResultOnRequest ELSE lastResult
    /\ UNCHANGED <<outcome, chan, rpc, nEmitted, lastEmitted>>
    /\ UNCHANGED <<jobVars, cacheVars, restVars, sent, aborted>>

\* AsyncPush::is_pending
PushIsPending ==
    /\ ui.pc = "idle"
    /\ Return([IdleUi EXCEPT !.op = "push_is_pending",
                             !.ret = (pstate # None)])
    /\ UNCHANGED <<jobVars, cacheVars, pushVars, restVars, sent, aborted>>

\* AsyncPush::last_result
LastResult ==
    /\ ui.pc = "idle"
    /\ Return([IdleUi EXCEPT !.op = "last_result", !.val = lastResult])
    /\ UNCHANGED <<jobVars, cacheVars, pushVars, restVars, sent, aborted>>

\* AsyncPush::progress
Progress ==
    /\ ui.pc = "idle"
    /\ Return([IdleUi EXCEPT !.op = "progress",
                  !.val = IF progress = NoEvent THEN NoProgress
                          ELSE ToPushProgress(progress)])
    /\ UNCHANGED <<jobVars, cacheVars, pushVars, restVars, sent, aborted>>

\* the push thread starts: unbounded() and spawn_receiver_thread
PushStart(r) ==
    /\ ppc[r] = "spawned"
    /\ chan' = <<>>
    /\ rpc' = "recv"
    /\ lastEmitted' = NoEvent
    /\ ppc' = [ppc EXCEPT ![r] = "pushing"]
    /\ UNCHANGED <<pstate, lastResult, progress, outcome, nEmitted>>
    /\ UNCHANGED <<jobVars, cacheVars, restVars, sent, aborted, ui>>

\* a callback of sync::push sends a progress event; the result of the send
\* is ignored, an event sent after the relay ended is lost
PushEmit(r, e) ==
    /\ ppc[r] = "pushing"
    /\ nEmitted < MaxEvents
    /\ chan' = IF rpc = "panicked" THEN chan ELSE Append(chan, e)
    /\ nEmitted' = nEmitted + 1
    /\ lastEmitted' = e
    /\ UNCHANGED <<pstate, lastResult, progress, ppc, outcome, rpc>>
    /\ UNCHANGED <<jobVars, cacheVars, restVars, sent, aborted, ui>>

\* sync::push returns Ok or Err
PushReturns(r, res) ==
    /\ ppc[r] = "pushing"
    /\ outcome' = [outcome EXCEPT ![r] = res]
    /\ ppc' = [ppc EXCEPT ![r] = "done"]
    /\ UNCHANGED <<pstate, lastResult, progress, chan, rpc, nEmitted,
                   lastEmitted>>
    /\ UNCHANGED <<jobVars, cacheVars, restVars, sent, aborted, ui>>

\* progress_sender.send(Done).expect(..): the send fails, and the thread
\* panics, when the relay thread has dropped the receiver
PushSendDone(r) ==
    /\ ppc[r] = "done"
    /\ IF rpc = "panicked"
         THEN /\ ppc' = [ppc EXCEPT ![r] = "panicked"]
              /\ UNCHANGED chan
         ELSE /\ chan' = Append(chan, Done)
              /\ ppc' = [ppc EXCEPT ![r] = "join"]
    /\ UNCHANGED <<pstate, lastResult, progress, outcome, rpc, nEmitted,
                   lastEmitted>>
    /\ UNCHANGED <<jobVars, cacheVars, restVars, sent, aborted, ui>>

\* handle.join().expect(..): blocks until the relay thread has ended and
\* panics if the relay thread panicked
PushJoin(r) ==
    /\ ppc[r] = "join"
    /\ RelayJoinable
    /\ ppc' = [ppc EXCEPT ![r] = IF rpc = "panicked" THEN "panicked"
                                                     ELSE "result"]
    /\ UNCHANGED <<pstate, lastResult, progress, outcome, chan, rpc, nEmitted,
                   lastEmitted>>
    /\ UNCHANGED <<jobVars, cacheVars, restVars, sent, aborted, ui>>

\* Self::set_result(arc_res, res)
PushSetResult(r) ==
    /\ ppc[r] = "result"
    /\ lastResult' = ResultValue(r)
    /\ ppc' = [ppc EXCEPT ![r] = "clear"]
    /\ UNCHANGED <<pstate, progress, outcome, chan, rpc, nEmitted,
                   lastEmitted>>
    /\ UNCHANGED <<jobVars, cacheVars, restVars, sent, aborted, ui>>

\* Self::clear_request(arc_state)
PushClearRequest(r) ==
    /\ ppc[r] = "clear"
    /\ pstate' = None
    /\ ppc' = [ppc EXCEPT ![r] = "notify"]
    /\ UNCHANGED <<lastResult, progress, outcome, chan, rpc, nEmitted,
                   lastEmitted>>
    /\ UNCHANGED <<jobVars, cacheVars, restVars, sent, aborted, ui>>

\* sender.send(AsyncNotification::Push).expect(..), the final notification
PushNotify(r) ==
    /\ ppc[r] = "notify"
    /\ IF receiverAlive
         THEN /\ sent' = sent + 1
              /\ ppc' = [ppc EXCEPT ![r] = "finished"]
         ELSE /\ ppc' = [ppc EXCEPT ![r] = "panicked"]
              /\ UNCHANGED sent
    /\ UNCHANGED <<pstate, lastResult, progress, outcome, chan, rpc, nEmitted,
                   lastEmitted>>
    /\ UNCHANGED <<jobVars, cacheVars, restVars, aborted, ui>>

\* the relay thread: receiver.recv(); Done ends the loop, another event is
\* stored by set_progress
RelayRecv ==
    /\ rpc = "recv"
    /\ chan # <<>>
    /\ chan' = Tail(chan)
    /\ IF IsTerminal(Head(chan))
         THEN /\ rpc' = "exited"
              /\ UNCHANGED progress
         ELSE /\ progress' = Head(chan)
              /\ rpc' = "notify"
    /\ UNCHANGED <<pstate, lastResult, ppc, outcome, nEmitted, lastEmitted>>
    /\ UNCHANGED <<jobVars, cacheVars, restVars, sent, aborted, ui>>

\* the relay thread: sender.send(AsyncNotification::Push).expect(..)
RelayNotify ==
    /\ rpc = "notify"
    /\ IF receiverAlive
         THEN /\ sent' = sent + 1
              /\ rpc' = "recv"
         ELSE /\ rpc' = "panicked"
              /\ UNCHANGED sent
    /\ UNCHANGED <<pstate, lastResult, progress, ppc, outcome, chan, nEmitted,
                   lastEmitted>>
    /\ UNCHANGED <<jobVars, cacheVars, restVars, aborted, ui>>

\* the steps of the push thread of request r outside sync::push
PushThreadStep(r) ==
    \/ PushStart(r)
    \/ PushSendDone(r)
    \/ PushJoin(r)
    \/ PushSetResult(r)
    \/ PushClearRequest(r)
    \/ PushNotify(r)

PushNext ==
    \/ PushRequestCall
    \/ PushIsPending
    \/ LastResult
    \/ Progress
    \/ UiReturn
    \/ \E r \in Requests : PushStart(r)
    \/ \E r \in Requests, e \in EventKinds : PushEmit(r, e)
    \/ \E r \in Requests, res \in {"ok", "err"} : PushReturns(r, res)
    \/ \E r \in Requests : PushSendDone(r)
    \/ \E r \in Requests : PushJoin(r)
    \/ \E r \in Requests : PushSetResult(r)
    \/ \E r \in Requests : PushClearRequest(r)
    \/ \E r \in Requests : PushNotify(r)
    \/ RelayRecv
    \/ RelayNotify

PushSpec == Init /\ [][PushNext]_vars

\* the operating system schedules every thread that can run; sync::push
\* itself may take for ever
PushFairness ==
    /\ \A r \in Requests : WF_vars(PushThreadStep(r))
    /\ WF_vars(RelayRecv)
    /\ WF_vars(RelayNotify)

PushFairSpec == PushSpec /\ PushFairness

\* AsyncPush with a Receiver of the notification channel that can be dropped
PushDropNext ==
    \/ PushRequestCall
    \/ PushIsPending
    \/ LastResult
    \/ Progress
    \/ UiReturn
    \/ DropReceiver
    \/ \E r \in Requests : PushStart(r)
    \/ \E r \in Requests, e \in EventKinds : PushEmit(r, e)
    \/ \E r \in Requests, res \in {"ok", "err"} : PushReturns(r, res)
    \/ \E r \in Requests : PushSendDone(r)
    \/ \E r \in Requests : PushJoin(r)
    \/ \E r \in Requests : PushSetResult(r)
    \/ \E r \in Requests : PushClearRequest(r)
    \/ \E r \in Requests : PushNotify(r)
    \/ RelayRecv
    \/ RelayNotify

PushDropSpec == Init /\ [][PushDropNext]_vars

\* the request accepted before r, or None
PreviousAccepted(r) ==
    LET S == {q \in Requests : q < r /\ ppc[q] \notin {"none", "rejected"}}
    IN  IF S = {} THEN None ELSE CHOOSE q \in S : \A k \in S : k <= q

\* requests whose result has been stored
ResultStored == {r \in Requests : ppc[r] \in {"clear", "notify", "finished"}}

\* the relay thread of the running push has not ended
RelayAlive == rpc \in {"recv", "notify"}

\* progress events in the channel
EventsInChannel == Cardinality({i \in 1..Len(chan) : chan[i] # Done})

----------------------------------------------------------------------------
\* The main loop: select_event and the handling of what it returned

\* the values of AsyncNotification the subsystems send
Notifications == {"Status", "Push"}

NoTag == ""

\* QueueEvent
InputEvent == [kind |-> "InputEvent", tag |-> NoTag]

TickEvent == [kind |-> "Tick", tag |-> NoTag]

SpinnerUpdate == [kind |-> "SpinnerUpdate", tag |-> NoTag]

GitEvent(t) == [kind |-> "GitEvent", tag |-> t]

QueueEvents ==
    {InputEvent, TickEvent, SpinnerUpdate} \cup
    {GitEvent(t) : t \in Notifications}

\* the git notifications among a list of events
GitTags(es) ==
    LET F[i \in 0..Len(es)] ==
            IF i = 0 THEN <<>>
            ELSE IF es[i].kind = "GitEvent" THEN Append(F[i - 1], es[i].tag)
            ELSE F[i - 1]
    IN  F[Len(es)]

\* a receive that leaves the message in the channel
RecvGitKeeps == gitQ

\* oper.recv(rx_git): the oldest message leaves the channel
RecvGit == Tail(gitQ)

\* a thread of a subsystem sends a notification on its clone of tx_git
GitSend(t) ==
    /\ lpc # "exited"
    /\ Len(putHist) < MaxNotifications
    /\ gitQ' = Append(gitQ, t)
    /\ putHist' = Append(putHist, t)
    /\ UNCHANGED <<handledGit, lpc, levents, quit>>
    /\ UNCHANGED <<jobVars, cacheVars, pushVars, sent, aborted, ui,
                   lockVars, fetchVars>>

\* select_event returns with one event of a channel that was ready
Selected(e) ==
    /\ lpc = "select"
    /\ levents' = Append(<<>>, e)
    /\ lpc' = "handle"
    /\ UNCHANGED <<putHist, handledGit, quit>>
    /\ UNCHANGED <<jobVars, cacheVars, pushVars, sent, aborted, ui,
                   lockVars, fetchVars>>

\* index 0: an input event is ready
SelectInput == Selected(InputEvent) /\ UNCHANGED gitQ

\* index 1: the git channel holds a notification
SelectGit ==
    /\ gitQ # <<>>
    /\ Selected(GitEvent(Head(gitQ)))
    /\ gitQ' = RecvGit

\* index 2: the ticker has fired
SelectTick == Selected(TickEvent) /\ UNCHANGED gitQ

\* index 3: the spinner ticker has fired
SelectSpinner == Selected(SpinnerUpdate) /\ UNCHANGED gitQ

\* the body of the loop after select_event: every event goes to its
\* handler, then the drawing, then the is_quit test; ok is whether all of
\* them returned Ok, q what the app answers to is_quit
HandleEvents(ok, q) ==
    /\ lpc = "handle"
    /\ handledGit' = handledGit \o GitTags(levents)
    /\ levents' = <<>>
    /\ quit' = (ok /\ q)
    /\ lpc' = IF ok /\ ~q THEN "select" ELSE "exited"
    /\ UNCHANGED <<gitQ, putHist>>
    /\ UNCHANGED <<jobVars, cacheVars, pushVars, sent, aborted, ui,
                   lockVars, fetchVars>>

LoopNext ==
    \/ \E t \in Notifications : GitSend(t)
    \/ SelectInput
    \/ SelectGit
    \/ SelectTick
    \/ SelectSpinner
    \/ \E ok \in BOOLEAN, q \in BOOLEAN : HandleEvents(ok, q)

LoopSpec == Init /\ [][LoopNext]_vars

\* Select::select picks at random among the operations that are ready, so a
\* channel that is ready again and again is picked in the end; the loop
\* goes on to handle what it selected
LoopFairness ==
    /\ SF_vars(SelectGit)
    /\ WF_vars(\E ok \in BOOLEAN, q \in BOOLEAN : HandleEvents(ok, q))

LoopFairSpec == LoopSpec /\ LoopFairness

\* the notifications select_event holds between the channel and the handler
InHand == GitTags(levents)

----------------------------------------------------------------------------
(***************************************************************************)
(* The three mutexes of one AsyncSingleJob, with every lock() and every    *)
(* drop of a guard a step of its own. Callers are threads that call the    *)
(* public methods on clones of the scheduler; pool threads run the         *)
(* closures check_for_job hands to rayon_core::spawn.                      *)
(***************************************************************************)

\* positions where a thread is blocked in Mutex::lock
NextWaitPcs == {"cancel_wait", "sn_wait", "tn_wait"}

LastWaitPcs == {"tl_wait", "last_wait"}

PendingWaitPcs == {"rj_wait"}

WaitPcs == NextWaitPcs \cup LastWaitPcs \cup PendingWaitPcs

\* positions inside the scope of a guard
NextHeldPcs == {"cancel_in", "sn_in", "tn_in"}

LastHeldPcs == {"tl_in", "last_in"}

PendingHeldPcs == {"ip_held", "cfj_held", "run", "last_wait", "last_in", "send"}

\* the asynchronous parts above, which the steps below leave alone
asyncVars == <<jobVars, cacheVars, pushVars, sent, aborted, ui>>

LockFrame == UNCHANGED <<asyncVars, loopVars, fetchVars>>

\* a guard that is kept alive past the end of its scope
KeepGuard(t) == t

\* a guard is dropped at the end of its scope
DropGuard(t) == Free

\* a caller enters is_pending
CallIsPending(c) ==
    /\ tpc[c] = "idle"
    /\ tpc' = [tpc EXCEPT ![c] = "ip"]
    /\ UNCHANGED <<lkPending, lkNext, lkLast, nextFull, queuedCl, nSpawned>>
    /\ LockFrame

\* a caller enters cancel
CallCancel(c) ==
    /\ tpc[c] = "idle"
    /\ tpc' = [tpc EXCEPT ![c] = "cancel_wait"]
    /\ UNCHANGED <<lkPending, lkNext, lkLast, nextFull, queuedCl, nSpawned>>
    /\ LockFrame

\* a caller enters take_last
CallTakeLast(c) ==
    /\ tpc[c] = "idle"
    /\ tpc' = [tpc EXCEPT ![c] = "tl_wait"]
    /\ UNCHANGED <<lkPending, lkNext, lkLast, nextFull, queuedCl, nSpawned>>
    /\ LockFrame

\* a caller enters spawn: schedule_next comes first
CallSpawn(c) ==
    /\ tpc[c] = "idle"
    /\ nSpawned < MaxLockJobs
    /\ nSpawned' = nSpawned + 1
    /\ tpc' = [tpc EXCEPT ![c] = "sn_wait"]
    /\ UNCHANGED <<lkPending, lkNext, lkLast, nextFull, queuedCl>>
    /\ LockFrame

\* a caller enters check_for_job
CallCheckForJob(c) ==
    /\ tpc[c] = "idle"
    /\ tpc' = [tpc EXCEPT ![c] = "cfj"]
    /\ UNCHANGED <<lkPending, lkNext, lkLast, nextFull, queuedCl, nSpawned>>
    /\ LockFrame

\* self.pending.try_lock() in is_pending: never blocks
TryLockPending(t) ==
    /\ tpc[t] \in {"ip", "cfj"}
    /\ IF lkPending = Free
         THEN /\ lkPending' = t
              /\ tpc' = [tpc EXCEPT ![t] =
                            IF tpc[t] = "ip" THEN "ip_held" ELSE "cfj_held"]
         ELSE /\ tpc' = [tpc EXCEPT ![t] = "idle"]
              /\ UNCHANGED lkPending
    /\ UNCHANGED <<lkNext, lkLast, nextFull, queuedCl, nSpawned>>
    /\ LockFrame

\* the temporary guard of is_pending is dropped; check_for_job goes on to
\* take_next
DropProbe(t) ==
    /\ tpc[t] \in {"ip_held", "cfj_held"}
    /\ lkPending' = DropGuard(t)
    /\ tpc' = [tpc EXCEPT ![t] =
                  IF tpc[t] = "ip_held" THEN "idle" ELSE "tn_wait"]
    /\ UNCHANGED <<lkNext, lkLast, nextFull, queuedCl, nSpawned>>
    /\ LockFrame

\* self.next.lock() in cancel, schedule_next and take_next
LockNextSlot(t) ==
    /\ tpc[t] \in NextWaitPcs
    /\ lkNext = Free
    /\ lkNext' = t
    /\ tpc' = [tpc EXCEPT ![t] =
                  IF tpc[t] = "cancel_wait" THEN "cancel_in"
                  ELSE IF tpc[t] = "sn_wait" THEN "sn_in" ELSE "tn_in"]
    /\ UNCHANGED <<lkPending, lkLast, nextFull, queuedCl, nSpawned>>
    /\ LockFrame

\* the body under the `next` guard and its drop: cancel empties the slot,
\* schedule_next fills it and spawn goes on to check_for_job, take_next
\* empties it and a taken job is handed to rayon_core::spawn
UnlockNextSlot(t) ==
    /\ tpc[t] \in NextHeldPcs
    /\ lkNext' = DropGuard(t)
    /\ nextFull' = (tpc[t] = "sn_in")
    /\ queuedCl' = IF tpc[t] = "tn_in" /\ nextFull
                     THEN queuedCl + 1 ELSE queuedCl
    /\ tpc' = [tpc EXCEPT ![t] = IF tpc[t] = "sn_in" THEN "cfj" ELSE "idle"]
    /\ UNCHANGED <<lkPending, lkLast, nSpawned>>
    /\ LockFrame

\* self.last.lock() in take_last and in run_job
LockLastSlot(t) ==
    /\ tpc[t] \in LastWaitPcs
    /\ lkLast = Free
    /\ lkLast' = t
    /\ tpc' = [tpc EXCEPT ![t] =
                  IF tpc[t] = "tl_wait" THEN "tl_in" ELSE "last_in"]
    /\ UNCHANGED <<lkPending, lkNext, nextFull, queuedCl, nSpawned>>
    /\ LockFrame

\* last.take() or `*last = Some(task)`, then the guard is dropped
UnlockLastSlot(t) ==
    /\ tpc[t] \in LastHeldPcs
    /\ lkLast' = DropGuard(t)
    /\ tpc' = [tpc EXCEPT ![t] = IF tpc[t] = "tl_in" THEN "idle" ELSE "send"]
    /\ UNCHANGED <<lkPending, lkNext, nextFull, queuedCl, nSpawned>>
    /\ LockFrame

\* a pool thread starts a closure: run_job is entered
PoolTake(p) ==
    /\ tpc[p] = "idle"
    /\ queuedCl > 0
    /\ queuedCl' = queuedCl - 1
    /\ tpc' = [tpc EXCEPT ![p] = "rj_wait"]
    /\ UNCHANGED <<lkPending, lkNext, lkLast, nextFull, nSpawned>>
    /\ LockFrame

\* `let _pending = self.pending.lock()?`
LockPending(p) ==
    /\ tpc[p] = "rj_wait"
    /\ lkPending = Free
    /\ lkPending' = p
    /\ tpc' = [tpc EXCEPT ![p] = "run"]
    /\ UNCHANGED <<lkNext, lkLast, nextFull, queuedCl, nSpawned>>
    /\ LockFrame

\* task.run() returns
RunReturns(p) ==
    /\ tpc[p] = "run"
    /\ tpc' = [tpc EXCEPT ![p] = "last_wait"]
    /\ UNCHANGED <<lkPending, lkNext, lkLast, nextFull, queuedCl, nSpawned>>
    /\ LockFrame

\* sender.send(..)? and the end of the inner scope: _pending is dropped;
\* check_for_job follows unless the send failed
UnlockPending(p, ok) ==
    /\ tpc[p] = "send"
    /\ lkPending' = DropGuard(p)
    /\ tpc' = [tpc EXCEPT ![p] = IF ok THEN "cfj" ELSE "idle"]
    /\ UNCHANGED <<lkNext, lkLast, nextFull, queuedCl, nSpawned>>
    /\ LockFrame

\* Mutex::lock returns to thread t
Acquire(t) ==
    \/ LockNextSlot(t)
    \/ LockLastSlot(t)
    \/ LockPending(t)

\* a step of thread t inside a method or a closure
ThreadStep(t) ==
    \/ TryLockPending(t)
    \/ DropProbe(t)
    \/ UnlockNextSlot(t)
    \/ UnlockLastSlot(t)
    \/ PoolTake(t)
    \/ RunReturns(t)
    \/ \E ok \in BOOLEAN : UnlockPending(t, ok)

LockNext ==
    \/ \E c \in Callers : CallIsPending(c)
    \/ \E c \in Callers : CallCancel(c)
    \/ \E c \in Callers : CallTakeLast(c)
    \/ \E c \in Callers : CallSpawn(c)
    \/ \E c \in Callers : CallCheckForJob(c)
    \/ \E t \in Threads : TryLockPending(t)
    \/ \E t \in Threads : DropProbe(t)
    \/ \E t \in Threads : LockNextSlot(t)
    \/ \E t \in Threads : UnlockNextSlot(t)
    \/ \E t \in Threads : LockLastSlot(t)
    \/ \E t \in Threads : UnlockLastSlot(t)
    \/ \E p \in PoolThreads : PoolTake(p)
    \/ \E p \in PoolThreads : LockPending(p)
    \/ \E p \in PoolThreads : RunReturns(p)
    \/ \E p \in PoolThreads, ok \in BOOLEAN : UnlockPending(p, ok)

LockSpec == Init /\ [][LockNext]_vars

\* every thread that can take a step is scheduled, task.run() returns, and
\* a mutex that is free again and again is given to a thread that waits
LockFairness ==
    \A t \in Threads : WF_vars(ThreadStep(t)) /\ SF_vars(Acquire(t))

LockFairSpec == LockSpec /\ LockFairness

\* thread t is not blocked
CanMove(t) == ENABLED (ThreadStep(t) \/ Acquire(t))

\* the thread holding the mutex a blocked thread waits for
WaitsFor(t) ==
    IF tpc[t] \in NextWaitPcs THEN lkNext
    ELSE IF tpc[t] \in LastWaitPcs THEN lkLast
    ELSE lkPending

----------------------------------------------------------------------------
(***************************************************************************)
(* FetchComponent (src/components/fetch.rs): the popup of a fetch. It owns *)
(* an AsyncFetch, which runs one fetch at a time on a thread of its own    *)
(* and sends AsyncNotification::Fetch when the fetch has completed; the    *)
(* application passes key events to event and notifications to update_git. *)
(***************************************************************************)

\* the keys FetchComponent::event tells apart
Keys == {"exit_popup", "enter", "other"}

\* what need_username_password and extract_username_password tell fetch
CredCases == {"not_needed", "complete", "incomplete"}

FetchFrame == UNCHANGED <<asyncVars, loopVars, lockVars>>

\* fetches of AsyncFetch that have completed
FetchesCompleted == IF afState = "running" THEN nFetches - 1 ELSE nFetches

\* AsyncFetch::request: ignored while a fetch is pending, else the fetch
\* starts on its thread
AfRequest ==
    IF afState = "idle"
      THEN afState' = "running" /\ nFetches' = nFetches + 1
      ELSE UNCHANGED <<afState, nFetches>>

\* fetch_from_remote: pending, progress, git_fetch.request
FetchFromRemote ==
    /\ fpending' = TRUE
    /\ AfRequest

\* FetchComponent::fetch, called when the user asks for a fetch
UserFetch(cred) ==
    /\ ~fvisible
    /\ nFetches < MaxUserFetches
    /\ fvisible' = TRUE
    /\ IF cred = "incomplete"
         THEN /\ credVisible' = TRUE
              /\ UNCHANGED <<fpending, afState, nFetches>>
         ELSE /\ FetchFromRemote
              /\ UNCHANGED credVisible
    /\ UNCHANGED <<afResult, fetchQ, fHandled>>
    /\ FetchFrame

\* FetchComponent::event for a key event while the popup is visible;
\* consumed is what input_cred.event returns, complete whether the
\* credentials typed in are complete
KeyEvent(k, consumed, complete) ==
    /\ fvisible
    /\ consumed => credVisible
    /\ IF ~consumed /\ k = "enter" /\ credVisible /\ complete
         THEN /\ FetchFromRemote
              /\ credVisible' = FALSE
              /\ fvisible' = (k # "exit_popup")
         ELSE /\ fvisible' = (k # "exit_popup" /\ (consumed \/ k # "enter"))
              /\ UNCHANGED <<fpending, credVisible, afState, nFetches>>
    /\ UNCHANGED <<afResult, fetchQ, fHandled>>
    /\ FetchFrame

\* the fetch of AsyncFetch returns: the result is stored, the pending state
\* cleared and AsyncNotification::Fetch sent
AfComplete(res) ==
    /\ afState = "running"
    /\ afState' = "idle"
    /\ afResult' = res
    /\ fetchQ' = fetchQ + 1
    /\ UNCHANGED <<fvisible, fpending, credVisible, fHandled, nFetches>>
    /\ FetchFrame

\* update_git: `if self.is_visible()`
Updates == fvisible

\* the main loop passes a Fetch notification to update_git, which calls
\* update if the popup is visible
DeliverFetch ==
    /\ fetchQ > 0
    /\ fetchQ' = fetchQ - 1
    /\ IF Updates
         THEN /\ fpending' = (afState = "running")
              /\ IF afState = "running"
                   THEN UNCHANGED <<fvisible, fHandled>>
                   ELSE /\ fvisible' = FALSE
                        /\ fHandled' =
                              IF afResult = "none" THEN fHandled
                              ELSE Append(fHandled,
                                          IF afResult = "ok" THEN "merge"
                                          ELSE "error")
         ELSE UNCHANGED <<fvisible, fpending, fHandled>>
    /\ UNCHANGED <<credVisible, afState, afResult, nFetches>>
    /\ FetchFrame

FetchNext ==
    \/ \E cred \in CredCases : UserFetch(cred)
    \/ \E k \in Keys, consumed \in BOOLEAN, complete \in BOOLEAN :
          KeyEvent(k, consumed, complete)
    \/ \E res \in {"ok", "err"} : AfComplete(res)
    \/ DeliverFetch

FetchSpec == Init /\ [][FetchNext]_vars

\* the main loop hands every notification to the application (C29)
FetchFairness == WF_vars(DeliverFetch)

FetchFairSpec == FetchSpec /\ FetchFairness

----------------------------------------------------------------------------
\* C1: at most one job's run() is executing at any instant: two workers are
\* never both between acquiring and releasing the `pending` lock.
C1_AtMostOneExecuting == Cardinality(Executing) <= 1

\* two closures are dispatched at once and the second waits in lock() while
\* the first runs
C1_Witness ==
    \E j, k \in Jobs : wpc[j] = "running" /\ wpc[k] = "queued"

C3_SpawnTrueIffIdle ==
    (ui.pc = "ret" /\ ui.op = "spawn") =>
        /\ ui.ret <=> ~ui.busyAtCall
        /\ ui.ret <=> (ui.val # None)

\* C4 (as claimed): a job that was in `next` when the running job finished is
\* started without a further call from outside; so with the Receiver alive no
\* state in which nothing is in flight still owes such a job its start.
C4_QueuedJobIsStarted ==
    (Quiescent /\ receiverAlive) => owed = None

\* C5: cancel() returns true iff `next` held a job at the call; after it,
\* `next` is empty (until the next spawn), and a job removed by cancel is
\* never dispatched and never executes.
C5_Cancel ==
    /\ (ui.pc = "ret" /\ ui.op = "cancel") =>
           /\ ui.ret <=> (ui.before # None)
           /\ next = None
    /\ \A j \in dropped :
           /\ wpc[j] = "none"
           /\ \A i \in 1..Len(executed) : executed[i] # j

\* test_cancel's final state: J1 ran, the queued job was cancelled and never
\* ran, one notification was sent
C5_Witness ==
    /\ Quiescent
    /\ dropped # {}
    /\ executed = <<1>>
    /\ sent = 1

\* the step in which cancel() acts
CancelStep == ui.pc = "idle" /\ ui'.pc = "ret" /\ ui'.op = "cancel"

CancelReturned == ui.pc = "ret" /\ ui.op = "cancel"

\* the path of an execution through run_job's critical section: run()
\* returns, the job is stored in `last`, the notification is sent (when the
\* Receiver is alive), the lock is released
ExecPath(j) ==
    \/ wpc[j] = "running" /\ wpc'[j] = "store"
    \/ wpc[j] = "store" /\ wpc'[j] = "send" /\ last' = j
    \/ /\ wpc[j] = "send"
       /\ wpc'[j] = "release"
       /\ sent' = IF receiverAlive THEN sent + 1 ELSE sent
    \/ /\ wpc[j] = "release"
       /\ wpc'[j] \in {"check", "done"}
       /\ pending' = Unlocked

\* C6: cancel() changes nothing but `next`: `last`, the busy lock, the
\* workers and the channel are left as they were; a job that is executing
\* when cancel() is called is not stopped (its worker's next step stays
\* possible after cancel() returned) and leaves the critical section only by
\* way of storing itself in `last` and sending its notification.
C6_CancelOnlyClearsNext ==
    /\ [][CancelStep =>
            UNCHANGED <<last, pending, receiverAlive, sent, wpc, wok, nextId,
                        poisoned, aborted, executed, fresh>>]_vars
    /\ [](CancelReturned => \A j \in Executing : ENABLED WorkerExec(j))
    /\ [][\A j \in Jobs :
            (wpc[j] \in ExecPcs /\ wpc'[j] # wpc[j]) => ExecPath(j)]_vars

\* cancel() removed the queued job while J1's run() was in progress
C6_Witness ==
    /\ CancelReturned
    /\ ui.ret
    /\ wpc[1] = "running"

\* C7: while the Receiver is alive exactly one notification is sent per
\* completed execution: the number sent equals the number of executions that
\* passed their send, when nothing is in flight it equals the number of
\* executions, and a job that was overwritten or cancelled before it started
\* (it never executes) accounts for none.
C7_OneNotificationPerExecution ==
    receiverAlive =>
        /\ sent = Cardinality(AfterSend)
        /\ sent <= Len(executed)
        /\ Quiescent => sent = Len(executed)
        /\ Quiescent => sent = Cardinality({j \in Jobs : wpc[j] = "done"})

\* three jobs were submitted, one of them was overwritten or cancelled, the
\* two executions sent two notifications
C7_Witness ==
    /\ receiverAlive
    /\ Quiescent
    /\ nextId > 3
    /\ Len(executed) = 2
    /\ sent = 2

\* C8: take_last() returns the most recently completed job and empties
\* `last`: it returns that job iff a job was stored since the previous
\* take_last, and None otherwise (nothing completed yet, or already taken),
\* so no completed job instance is returned twice.
C8_TakeLastOnce ==
    /\ (ui.pc = "ret" /\ ui.op = "take_last") =>
           ui.val = IF ui.wasFresh THEN ui.before ELSE None
    /\ fresh <=> (last # None)

\* a second take_last() after a job completed and was taken returns None
C8_Witness ==
    /\ ui.pc = "ret"
    /\ ui.op = "take_last"
    /\ ui.val = None
    /\ ui.before # None

\* C9 (as claimed): is_pending() returns true iff a worker holds the
\* `pending` lock for an execution at the moment of the probe.
C9_IsPendingIffExecuting ==
    (ui.pc = "ret" /\ ui.op = "is_pending") => (ui.ret <=> ui.execAtProbe)

\* C10: is_pending, spawn, cancel, take_last (and check_for_job) never wait
\* for a running job: while a worker holds the `pending` lock for an
\* execution, each of them can be called and every step of a call in
\* progress can be taken.
C10_UiNeverWaits ==
    (Executing # {}) =>
        IF ui.pc = "idle"
          THEN /\ ENABLED IsPending
               /\ ENABLED Cancel
               /\ ENABLED TakeLast
               /\ ENABLED CheckForJob
               /\ (nextId <= MaxJobs) => ENABLED Spawn
          ELSE ENABLED UiStep

\* spawn(J2) was called and returned false, all while J1's run() was in
\* progress
C10_Witness ==
    /\ onlySpawns
    /\ ui.pc = "ret"
    /\ ui.op = "spawn"
    /\ ui.job = 2
    /\ ~ui.ret
    /\ wpc[1] = "running"

----------------------------------------------------------------------------
\* C11 (as claimed): when the send fails because the Receiver was dropped the
\* scheduler keeps working: the completed job is in `last`, the busy lock is
\* released and a job waiting in `next` is still started by the finishing
\* worker; so in the scenario of spawn calls only, once nothing is in flight
\* no job that waited in `next` is left unstarted.
C11_SurvivesSendFailure ==
    (Quiescent /\ onlySpawns /\ ~receiverAlive) =>
        /\ pending = Unlocked
        /\ fresh => last = MostRecentStored
        /\ owed = None

\* C12 (as claimed): a panic inside run() aborts only that execution: the
\* process goes on, and is_pending() returns false again whenever nobody
\* holds the `pending` lock.
C12_UsableAfterPanic ==
    /\ ~aborted
    /\ (ui.pc = "ret" /\ ui.op = "is_pending" /\ ~ui.heldAtProbe) => ~ui.ret

----------------------------------------------------------------------------
\* C13: a fetch whose fingerprint equals current.0 returns current.1,
\* dispatches nothing and leaves current, last and the pending count as they
\* were; a Some(v) it returns is the result of a closure of that fingerprint
\* that has completed its write to `current`.
C13_DedupPath ==
    [][(StatusCallStep("fetch") /\ ui'.hash = current.hash) =>
          /\ ui'.val = current.value
          /\ ~ui'.ret
          /\ UNCHANGED <<current, lastStatus, pendingCount, cpc, hashRequest>>
          /\ current.value # None =>
                /\ current.value \in PastCurrent
                /\ hashRequest[current.value] = current.hash]_vars

C13_Witness ==
    /\ StatusCallReturned("fetch")
    /\ ~ui.ret
    /\ ui.val # None
    /\ ui.hash = current.hash

\* C14 (as claimed): fetches with identical parameters and tick cause one
\* computation for that fingerprint, also with fetches of other fingerprints
\* between them: no two dispatched closures, and so no two closures in
\* flight, carry the same fingerprint.
C14_OneComputationPerFingerprint ==
    /\ \A c, d \in Dispatched : c # d => hashRequest[c] # hashRequest[d]
    /\ \A c, d \in InFlight : c # d => hashRequest[c] # hashRequest[d]

\* C15: a fetch whose fingerprint differs from current.0 sets current to
\* (fingerprint, None), dispatches exactly one closure carrying that
\* fingerprint, and returns None while that closure has not even started.
C15_NewRequest ==
    [][(StatusCallStep("fetch") /\ ui'.hash # current.hash) =>
          /\ current' = [hash |-> ui'.hash, value |-> None]
          /\ ui'.val = None
          /\ \E c \in Closures :
                /\ cpc[c] = "none"
                /\ cpc'[c] = "spawned"
                /\ hashRequest'[c] = ui'.hash
                /\ \A d \in Closures \ {c} :
                      cpc'[d] = cpc[d] /\ hashRequest'[d] = hashRequest[d]
          /\ UNCHANGED <<lastStatus, pendingCount>>]_vars

C15_Witness ==
    /\ StatusCallReturned("fetch")
    /\ ui.ret
    /\ cpc[ui.job] = "spawned"
    /\ \E c \in Closures : c # ui.job /\ current.hash # hashRequest[c]
                                      /\ c \in PastCurrent

\* C16: whenever current.1 is Some(v), v is the result of a closure whose
\* fingerprint equals current.0 and which has completed its write to
\* `current`; so a closure that finishes after another fingerprint replaced
\* current has not written into it.
C16_CurrentValueMatchesFingerprint ==
    current.value # None =>
        /\ current.value \in PastCurrent
        /\ hashRequest[current.value] = current.hash

C16_Witness ==
    /\ current.value # None
    /\ \E c \in WroteBack :
          /\ hashRequest[c] # current.hash
          /\ lastWriter = c
          /\ c < current.value

\* C17 (as claimed): current.1 is never the result of a closure dispatched
\* before the latest request that changed current.0.
C17_NoRegression == current.value # None => current.value = LatestDispatched

\* C18: last() returns the default until a closure has written back, and
\* from then on the result of the closure that wrote back most recently,
\* whatever its fingerprint.
C18_LastWriteWins ==
    /\ lastStatus = lastWriter
    /\ (lastStatus = None) <=> (WroteBack = {})
    /\ lastStatus # None => lastStatus \in WroteBack
    /\ StatusCallReturned("last") => ui.val = ui.before

C18_Witness ==
    /\ StatusCallReturned("last")
    /\ ui.val # None
    /\ hashRequest[ui.val] # current.hash
    /\ current.value # None

\* C19 (as claimed): once the closure of the current fingerprint has
\* completed and no closure is in flight, what the status tab shows from
\* last() is the result for the current fingerprint.
C19_TabShowsCurrent ==
    [][(StatusCallStep("update_status") /\ InFlight = {}
            /\ current.value # None) =>
          ui'.val = current.value]_vars

\* C20 (as claimed): is_pending() is true iff a dispatched closure has not
\* finished: it is true from the return of the dispatching fetch until the
\* closure has written its result, and false when no closure is outstanding.
C20_IsPendingIffInFlight ==
    [][StatusCallStep("status_is_pending") =>
          /\ Computing # {} => ui'.ret
          /\ ui'.ret => InFlight # {}]_vars

----------------------------------------------------------------------------
\* C21: each completed closure has sent exactly one Status notification,
\* and a closure is at or past its send only after `last` holds a result
\* and its own increment of the pending count has been taken back.
C21_OneNotificationAfterWriteBack ==
    /\ sent = Cardinality(Completed)
    /\ pendingCount = Cardinality(Counted)
    /\ \A c \in Closures : cpc[c] \in {"send", "done"} =>
          /\ lastStatus # None
          /\ c \in WroteBack
          /\ hashRequest[c] = current.hash =>
                (current.value # None \/ LatestDispatched # c)

C21_Witness ==
    /\ sent = 2
    /\ Computing # {}
    /\ StatusCallReturned("update_status")
    /\ ui.val \in Completed
    /\ hashRequest[ui.val] # current.hash

\* C22 (as claimed): a failing repository call neither panics the closure
\* nor ends the process, and the pending count returns to zero once no
\* closure is running.
C22_FailureIsNotFatal ==
    /\ ~aborted
    /\ \A c \in Closures : cpc[c] # "panicked" \/ ~receiverAlive
    /\ (receiverAlive /\ Computing \cup Counted = {}) => pendingCount = 0

----------------------------------------------------------------------------
\* C23: at most one push runs per AsyncPush; a request made while one is
\* pending starts no thread, changes neither the stored request, the
\* progress nor last_result, and is never pushed later.
C23_OnePushAtATime ==
    /\ [](/\ Cardinality(Running) <= 1
          /\ Running = (IF pstate = None THEN {} ELSE {pstate})
          /\ \A r \in Requests : ppc[r] = "rejected" => outcome[r] = "none")
    /\ [][(StatusCallStep("request") /\ pstate # None) =>
             /\ ~ui'.ret
             /\ UNCHANGED <<pstate, lastResult, progress, outcome, chan, rpc>>
             /\ \A r \in Requests : ppc'[r] # ppc[r] =>
                   (r = ui'.job /\ ppc'[r] = "rejected")]_vars
    /\ [][\A r \in Requests : ppc[r] = "rejected" => ppc'[r] = "rejected"]_vars

C23_Witness ==
    /\ StatusCallReturned("request")
    /\ ~ui.ret
    /\ ppc[ui.job] = "rejected"
    /\ pstate # None
    /\ ppc[pstate] = "pushing"

\* C24: the relay thread has consumed Done and ended before the result is
\* stored and the pending state cleared: it is alive only while the pending
\* request's thread is between spawning it and joining it, and `progress`
\* is written only while a request is pending and not yet joined.
C24_RelayEndsBeforeCompletion ==
    /\ [](RelayAlive =>
             (pstate # None /\ ppc[pstate] \in {"pushing", "done", "join"}))
    /\ [](\A r \in ResultStored : r = LatestAccepted =>
             (rpc = "exited" /\ chan = <<>>))
    /\ [][progress' # progress =>
             (pstate' # None /\ ppc'[pstate'] \in BeforeJoinedPcs)]_vars
    /\ [][(sent' # sent /\ rpc # rpc') =>
             (pstate # None /\ ppc[pstate] \in BeforeJoinedPcs)]_vars

C24_Witness ==
    /\ pstate = None
    /\ LatestAccepted # None
    /\ ppc[LatestAccepted] = "notify"
    /\ progress # NoEvent
    /\ nEmitted = MaxEvents
    /\ rpc = "exited"

\* C25: once a request's result is stored last_result is Some(error) if
\* its push failed and None if it succeeded, and it is stored before the
\* pending state is cleared: whenever nothing is pending, last_result is
\* that of the request accepted last.
C25_LastResultBeforeClear ==
    /\ lastResult =
          (IF ResultStored = {} THEN None
           ELSE LET r == CHOOSE r \in ResultStored :
                            \A q \in ResultStored : q <= r
                IN  IF outcome[r] = "err" THEN r ELSE None)
    /\ (pstate = None /\ LatestAccepted # None) =>
          LatestAccepted \in ResultStored

C25_Witness ==
    /\ pstate = None
    /\ Cardinality(ResultStored) = 2
    /\ outcome[1] = "err"
    /\ outcome[2] = "ok"
    /\ StatusCallReturned("last_result")
    /\ ui.val = None

\* C26 (as claimed): with the notification Receiver dropped a running push
\* still completes: no thread of a pending request ends before the pending
\* state is cleared.
C26_CompletesWithoutReceiver ==
    \A r \in Requests : ppc[r] = "panicked" => pstate # r

\* C27: the relay handles the events in the order they were emitted,
\* storing each in `progress` and sending one notification for it; once a
\* request is joined `progress` is the last event its push emitted, or None
\* if it emitted none.
C27_ProgressIsLastEvent ==
    /\ (LatestAccepted # None /\ ppc[LatestAccepted] \in
            {"result", "clear", "notify", "finished"}) =>
          progress = lastEmitted
    /\ sent = nEmitted - EventsInChannel - (IF rpc = "notify" THEN 1 ELSE 0)
              + Cardinality({r \in Requests : ppc[r] = "finished"})
    /\ (RelayAlive /\ chan = <<>> /\ rpc = "recv") => progress = lastEmitted

C27_Witness ==
    /\ Cardinality(ResultStored) = 2
    /\ progress = NoEvent
    /\ nEmitted = MaxEvents
    /\ sent > MaxEvents

\* C28: an accepted request whose push operation has returned reaches, under
\* fair scheduling of its threads, the state where the pending state is
\* cleared and its final notification is sent; the final notification is
\* sent after the pending state was cleared.
C28_RequestCompletes ==
    /\ \A r \in Requests :
          (ppc[r] = "done") ~> (ppc[r] = "finished" /\ pstate # r)
    /\ [][\A r \in Requests : (ppc[r] # "finished" /\ ppc'[r] = "finished") =>
             (pstate # r /\ sent' = sent + 1)]_vars
    /\ [](\A r \in Requests : ppc[r] \in ClearedPcs => pstate # r)

C28_Witness ==
    /\ ppc[1] = "finished"
    /\ ppc[2] = "finished"
    /\ pstate = None

\* C29: every iteration of the main loop selects over the four channels
\* and handles exactly one event; every notification sent on the git
\* channel is passed to app.update_git exactly once and in channel order,
\* and, under a fair choice among the ready channels, is passed eventually
\* unless the loop has ended.
C29_GitEventsHandledInOrder ==
    /\ [](/\ lpc = "handle" => Len(levents) = 1
          /\ lpc # "handle" => levents = <<>>
          /\ \A i \in 1..Len(levents) : levents[i] \in QueueEvents
          /\ putHist = handledGit \o InHand \o gitQ)
    /\ [](lpc = "select" =>
             /\ ENABLED SelectInput
             /\ ENABLED SelectTick
             /\ ENABLED SelectSpinner
             /\ gitQ # <<>> => ENABLED SelectGit)
    /\ \A n \in 1..MaxNotifications :
          (Len(putHist) >= n) ~> (Len(handledGit) >= n \/ lpc = "exited")

C29_Witness ==
    /\ Len(handledGit) = MaxNotifications
    /\ handledGit = putHist
    /\ handledGit[1] # handledGit[2]
    /\ lpc = "select"
    /\ ~quit

\* C30: a worker goes run -> store in `last` -> send -> release the lock ->
\* check `next`: while it sends and until it releases, the job it ran is
\* in `last` unless take_last has already emptied the slot, it holds the
\* busy lock, and it gives the lock up only in the step after the send.
C30_StoreSendReleaseOrder ==
    /\ [](\A j \in Jobs : wpc[j] \in {"send", "release"} =>
             /\ pending = HeldByWorker(j, "exec")
             /\ last = j \/ (last = None /\ ~fresh))
    /\ [][\A j \in Jobs : wpc'[j] # wpc[j] =>
             <<wpc[j], wpc'[j]>> \in
                {<<"none", "queued">>, <<"queued", "running">>,
                 <<"queued", "done">>, <<"running", "store">>,
                 <<"store", "send">>, <<"send", "release">>,
                 <<"release", "check">>, <<"release", "done">>,
                 <<"check", "probed">>, <<"check", "done">>,
                 <<"probed", "take">>, <<"take", "done">>}]_vars
    /\ [][\A j \in Jobs :
             /\ (wpc[j] = "store" /\ wpc'[j] = "send") =>
                   (last' = j /\ sent' = sent)
             /\ sent' # sent =>
                   (\E k \in Jobs : /\ wpc[k] = "send"
                                    /\ wpc'[k] = "release"
                                    /\ pending' = HeldByWorker(k, "exec"))
             /\ (pending = HeldByWorker(j, "exec") /\ pending' # pending) =>
                   (wpc[j] = "release" /\ wpc'[j] \in {"check", "done"})]_vars

C30_Witness ==
    /\ \E j \in Jobs : /\ wpc[j] = "release"
                       /\ sent = 2
                       /\ last = None
                       /\ executed[Len(executed)] = j
    /\ StatusCallReturned("take_last")
    /\ ui.val # None
    /\ ui.val = executed[Len(executed)]

\* C31 (as claimed): jobs execute in the order they were passed to spawn:
\* run() of a job submitted earlier never starts after run() of a job
\* submitted later has started, and never before that one has finished.
C31_SubmissionOrder ==
    /\ \A i, k \in 1..Len(executed) : i < k => executed[i] < executed[k]
    /\ Cardinality(Executing) <= 1

\* C32: no reachable state of the scheduler's three mutexes is a deadlock:
\* a guard exists only inside its scope, a thread that holds `next` or
\* `last` waits for no lock, the holder of the lock a thread waits for can
\* take a step or waits for `last` whose holder can, and under fair
\* scheduling every waiting thread gets its lock.
C32_NoDeadlock ==
    /\ [](\A t \in Threads :
             /\ lkNext = t => tpc[t] \in NextHeldPcs
             /\ lkLast = t => tpc[t] \in LastHeldPcs
             /\ lkPending = t => tpc[t] \in PendingHeldPcs
             /\ (lkNext = t \/ lkLast = t) => tpc[t] \notin WaitPcs)
    /\ [](\A t \in Threads : tpc[t] \in WaitPcs =>
             \/ CanMove(t)
             \/ /\ WaitsFor(t) \in Threads \ {t}
                /\ \/ CanMove(WaitsFor(t))
                   \/ /\ tpc[WaitsFor(t)] \in LastWaitPcs
                      /\ lkLast \in Threads \ {t, WaitsFor(t)}
                      /\ CanMove(lkLast))
    /\ \A t \in Threads : (tpc[t] \in WaitPcs) ~> (tpc[t] \notin WaitPcs)

C32_Witness ==
    /\ tpc["p1"] = "last_wait"
    /\ lkPending = "p1"
    /\ lkLast = "c1"
    /\ tpc["p2"] = "rj_wait"
    /\ tpc["c2"] = "tn_wait"
    /\ lkNext = Free

\* C33 (as claimed): the first fetch on a new cache dispatches a computation
\* whatever its fingerprint is: once a fetch has returned, a closure has
\* been handed to the pool.
C33_FirstFetchDispatches ==
    StatusCallReturned("fetch") => Dispatched # {}

\* C34: once current.value is Some it stays Some, for the same fingerprint,
\* until a fetch with another fingerprint is made: only the miss path of
\* fetch sets it to None, no completing computation does.
C34_ValueStaysSome ==
    [][current.value # None =>
          \/ /\ current'.value # None
             /\ current'.hash = current.hash
          \/ /\ StatusCallStep("fetch")
             /\ ui'.ret
             /\ ui'.hash # current.hash
             /\ current' = [hash |-> ui'.hash, value |-> None]]_vars

C34_Witness ==
    /\ current.value # None
    /\ \E c \in Closures : /\ cpc[c] = "store"
                           /\ hashRequest[c] # current.hash
                           /\ c # current.value

\* C35 (as claimed): after fetch(P) dispatched a computation, under fair
\* scheduling and unless a fetch with another fingerprint is made (or the
\* tick has moved on, so that P cannot be asked for again), a later
\* fetch(P) returns the value of that computation.
C35_FetchEventuallyReturnsValue ==
    \A c \in Closures :
       (LatestDispatched = c)
          ~> \/ LatestDispatched # c
             \/ ~ENABLED FetchHit /\ ui.pc = "idle"
             \/ StatusCallReturned("fetch") /\ ~ui.ret /\ ui.val = c

\* C36: an accepted request sets progress to None before its thread
\* starts; while a request is pending progress is None or an event the
\* relay took from the channel of that request's push, and progress()
\* returns None or the conversion of such an event.
C36_NoLeftoverProgress ==
    /\ [](pstate # None =>
             \/ progress = NoEvent
             \/ /\ ppc[pstate] # "spawned"
                /\ lastEmitted # NoEvent)
    /\ [][(StatusCallStep("request") /\ ui'.ret) =>
             (progress' = NoEvent /\ ppc'[ui'.job] = "spawned")]_vars
    /\ [][(progress' # progress /\ progress' # NoEvent) =>
             /\ pstate # None
             /\ ppc[pstate] \in {"pushing", "done", "join"}
             /\ chan # <<>>
             /\ progress' = Head(chan)]_vars
    /\ [][(StatusCallStep("progress") /\ pstate # None) =>
             \/ ui'.val = NoProgress /\ progress = NoEvent
             \/ /\ lastEmitted # NoEvent
                /\ ui'.val = ToPushProgress(progress)
                /\ ui'.val.some]_vars

C36_Witness ==
    /\ pstate = 2
    /\ ppc[1] = "finished"
    /\ nEmitted = 2
    /\ StatusCallReturned("progress")
    /\ ui.val.some
    /\ ui.val = ToPushProgress(lastEmitted)
    /\ ui.val.progress = 60

\* C37: an accepted request does not change last_result: while a request
\* is pending and its result not stored, last_result is the outcome of the
\* request accepted before it, and it changes only in the set_result step
\* of the pending request's thread.
C37_LastResultUntilCompletion ==
    /\ [](\A r \in Requests :
             ppc[r] \in {"spawned", "pushing", "done", "join", "result"} =>
                lastResult =
                   (IF PreviousAccepted(r) = None THEN None
                    ELSE IF outcome[PreviousAccepted(r)] = "err"
                           THEN PreviousAccepted(r) ELSE None))
    /\ [][StatusCallStep("request") => lastResult' = lastResult]_vars
    /\ [][lastResult' # lastResult =>
             /\ pstate # None
             /\ ppc[pstate] = "result"
             /\ ppc'[pstate] = "clear"]_vars
    /\ [][(StatusCallStep("last_result") /\ pstate # None
             /\ ppc[pstate] # "clear") =>
             ui'.val = (IF PreviousAccepted(pstate) = None THEN None
                        ELSE IF outcome[PreviousAccepted(pstate)] = "err"
                               THEN PreviousAccepted(pstate) ELSE None)]_vars

C37_Witness ==
    /\ pstate = 2
    /\ ppc[2] = "join"
    /\ outcome[1] = "err"
    /\ outcome[2] = "ok"
    /\ StatusCallReturned("last_result")
    /\ ui.val = 1

\* C38 (as claimed): every fetch started by the component that completes
\* is eventually handled, whatever keys the user sends meanwhile: the
\* pending flag is false, the popup hidden, and the merge was attempted or
\* the error message queued.
C38_CompletedFetchIsHandled ==
    \A k \in 1..MaxUserFetches :
       (FetchesCompleted >= k)
          ~> (Len(fHandled) >= k /\ ~fpending /\ ~fvisible)

====
